---- MODULE Spec2Model ----
(***************************************************************************)
(* Model of the Hue remote-control app: the two HomeScreen components      *)
(* (src/app/index.tsx, the "simple" screen, and src/unnamed/part_000, the  *)
(* "extended" screen), their voice-command interpreters, the webhook       *)
(* transport, the recording/transcription flow and the settings store.     *)
(* lastCommand, which is only displayed, is not part of the model.         *)
(***************************************************************************)
EXTENDS Integers, Sequences, FiniteSets, TLC

(***************************************************************************)
(* Strings.  JavaScript strings are modelled by TLA+ strings; includes,    *)
(* toLowerCase and trim are computed character by character.               *)
(***************************************************************************)

\* String.prototype.includes: t occurs in s as a substring.
Includes(s, t) ==
    \E i \in 1..(Len(s) - Len(t) + 1) : SubSeq(s, i, i + Len(t) - 1) = t

UpperLetters == "ABCDEFGHIJKLMNOPQRSTUVWXYZ"
LowerLetters == "abcdefghijklmnopqrstuvwxyz"

LowerChar(c) ==
    IF \E i \in 1..26 : SubSeq(UpperLetters, i, i) = c
    THEN LET i == CHOOSE k \in 1..26 : SubSeq(UpperLetters, k, k) = c
         IN  SubSeq(LowerLetters, i, i)
    ELSE c

RECURSIVE ToLowerCase(_)
\* String.prototype.toLowerCase
ToLowerCase(s) ==
    IF Len(s) = 0 THEN ""
    ELSE LowerChar(SubSeq(s, 1, 1)) \o ToLowerCase(SubSeq(s, 2, Len(s)))

RECURSIVE TrimStart(_)
TrimStart(s) ==
    IF Len(s) > 0 /\ SubSeq(s, 1, 1) = " " THEN TrimStart(SubSeq(s, 2, Len(s))) ELSE s

RECURSIVE TrimEnd(_)
TrimEnd(s) ==
    IF Len(s) > 0 /\ SubSeq(s, Len(s), Len(s)) = " "
    THEN TrimEnd(SubSeq(s, 1, Len(s) - 1)) ELSE s

\* String.prototype.trim
Trim(s) == TrimEnd(TrimStart(s))

\* some(): an element of the sequence of strings occurs in s.
IncludesAny(s, seq) == \E i \in 1..Len(seq) : Includes(s, seq[i])

(***************************************************************************)
(* The extended screen's interpreter (processVoiceCommand, the part that   *)
(* derives action and color from the transcript).                          *)
(***************************************************************************)

\* The color table in insertion order (Object.entries order).
COLOR_VARIATIONS ==
    << [name |-> "red",    variations |-> <<"red", "crimson", "scarlet">>],
       [name |-> "blue",   variations |-> <<"blue", "azure", "navy">>],
       [name |-> "green",  variations |-> <<"green", "emerald", "lime">>],
       [name |-> "yellow", variations |-> <<"yellow", "golden", "amber">>],
       [name |-> "white",  variations |-> <<"white", "bright", "light">>],
       [name |-> "black",  variations |-> <<"black", "dark", "midnight">>],
       [name |-> "purple", variations |-> <<"purple", "violet", "lavender">>],
       [name |-> "orange", variations |-> <<"orange", "tangerine">>],
       [name |-> "pink",   variations |-> <<"pink", "rose", "magenta">>] >>

colorPhrases ==
    << "change to", "switch to", "make it", "set to", "set it to",
       "change the color to", "set the color to", "turn it", "set light to",
       "change light to", "make the light" >>

\* command.match(/turn (on|off)/i) || command.match(/(on|off)/i)
PowerPattern(command) ==
    \/ Includes(command, "turn on") \/ Includes(command, "turn off")
    \/ Includes(command, "on") \/ Includes(command, "off")

\* A power step that looks for "on" first.
PowerStepOnFirst(command) ==
    IF PowerPattern(command)
    THEN (IF Includes(command, "on") THEN "turn_on" ELSE "turn_off")
    ELSE ""

\* The power step: the value of `action` after the first if.
PowerStep(command) ==
    IF PowerPattern(command)
    THEN (IF Includes(command, "off") THEN "turn_off" ELSE "turn_on")
    ELSE ""

\* Some synonym of the i-th color occurs in the command.
ColorMatches(command, i) == IncludesAny(command, COLOR_VARIATIONS[i].variations)

hasColorCommand(command) ==
    \/ IncludesAny(command, colorPhrases)
    \/ Includes(command, "color")
    \/ \E i \in 1..Len(COLOR_VARIATIONS) : ColorMatches(command, i)

\* A color step whose loop has no break: the last matching color stands.
ColorStepNoBreak(command, action) ==
    IF (hasColorCommand(command) \/ action = "")
       /\ \E i \in 1..Len(COLOR_VARIATIONS) : ColorMatches(command, i)
    THEN LET last == CHOOSE i \in 1..Len(COLOR_VARIATIONS) :
                         /\ ColorMatches(command, i)
                         /\ \A j \in (i + 1)..Len(COLOR_VARIATIONS) :
                                ~ColorMatches(command, j)
         IN  [action |-> "set_color", color |-> COLOR_VARIATIONS[last].name]
    ELSE [action |-> action, color |-> ""]

\* The color step: the for loop with break, under its guard.
ColorStep(command, action) ==
    IF (hasColorCommand(command) \/ action = "")
       /\ \E i \in 1..Len(COLOR_VARIATIONS) : ColorMatches(command, i)
    THEN LET first == CHOOSE i \in 1..Len(COLOR_VARIATIONS) :
                          /\ ColorMatches(command, i)
                          /\ \A j \in 1..(i - 1) : ~ColorMatches(command, j)
         IN  [action |-> "set_color", color |-> COLOR_VARIATIONS[first].name]
    ELSE [action |-> action, color |-> ""]

BrightnessPattern(command) ==
    Includes(command, "bright") \/ Includes(command, "dim")
        \/ Includes(command, "brightness")

LevelFull(command) ==
    Includes(command, "full") \/ Includes(command, "max")
        \/ Includes(command, "maximum") \/ Includes(command, "brightest")

LevelHalf(command) ==
    Includes(command, "half") \/ Includes(command, "medium") \/ Includes(command, "mid")

LevelLow(command) ==
    Includes(command, "low") \/ Includes(command, "dim") \/ Includes(command, "minimum")

\* A brightness step that sets the level but leaves the action as it was.
BrightnessStepKeepAction(command, cmd) ==
    IF BrightnessPattern(command)
    THEN IF LevelFull(command) THEN [action |-> cmd.action, color |-> "100"]
         ELSE IF LevelHalf(command) THEN [action |-> cmd.action, color |-> "50"]
         ELSE IF LevelLow(command) THEN [action |-> cmd.action, color |-> "20"]
         ELSE cmd
    ELSE cmd

\* A brightness step in which a bare brightness word means full brightness.
BrightnessStepDefaultFull(command, cmd) ==
    IF BrightnessPattern(command)
    THEN IF LevelHalf(command) THEN [action |-> "set_brightness", color |-> "50"]
         ELSE IF LevelLow(command) THEN [action |-> "set_brightness", color |-> "20"]
         ELSE [action |-> "set_brightness", color |-> "100"]
    ELSE cmd

\* A brightness step that tests the levels in the order low, half, full.
BrightnessStepLowFirst(command, cmd) ==
    IF BrightnessPattern(command)
    THEN IF LevelLow(command) THEN [action |-> "set_brightness", color |-> "20"]
         ELSE IF LevelHalf(command) THEN [action |-> "set_brightness", color |-> "50"]
         ELSE IF LevelFull(command) THEN [action |-> "set_brightness", color |-> "100"]
         ELSE cmd
    ELSE cmd

\* The brightness step: overwrites action and color when a level keyword matches.
BrightnessStep(command, cmd) ==
    IF BrightnessPattern(command)
    THEN IF LevelFull(command) THEN [action |-> "set_brightness", color |-> "100"]
         ELSE IF LevelHalf(command) THEN [action |-> "set_brightness", color |-> "50"]
         ELSE IF LevelLow(command) THEN [action |-> "set_brightness", color |-> "20"]
         ELSE cmd
    ELSE cmd

\* action and color as processVoiceCommand holds them when it reaches `if (action)`.
DeriveCommand(text) ==
    LET command == Trim(ToLowerCase(text))
    IN  BrightnessStep(command, ColorStep(command, PowerStep(command)))

(***************************************************************************)
(* The simple screen's interpreter (parseVoiceCommand): the arguments of   *)
(* the sendCommand call it makes, action "" when the command is not        *)
(* recognized.                                                             *)
(***************************************************************************)

SimpleColors == << "red", "blue", "green", "yellow", "white" >>

SimpleColorMatches(lc, i) ==
    Includes(lc, SimpleColors[i]) \/ Includes(lc, "change to " \o SimpleColors[i])

parseVoiceCommand(command) ==
    LET lc == ToLowerCase(command)
    IN  IF Includes(lc, "turn on") \/ Includes(lc, "switch on") \/ lc = "on"
        THEN [action |-> "on", color |-> ""]
        ELSE IF Includes(lc, "turn off") \/ Includes(lc, "switch off") \/ lc = "off"
        THEN [action |-> "off", color |-> ""]
        ELSE IF \E i \in 1..Len(SimpleColors) : SimpleColorMatches(lc, i)
        THEN LET first == CHOOSE i \in 1..Len(SimpleColors) :
                              /\ SimpleColorMatches(lc, i)
                              /\ \A j \in 1..(i - 1) : ~SimpleColorMatches(lc, j)
             IN  [action |-> "color", color |-> SimpleColors[first]]
        ELSE [action |-> "", color |-> ""]

(***************************************************************************)
(* State of the app.                                                       *)
(***************************************************************************)

VARIABLES
    screen,        \* which HomeScreen is mounted: "simple" or "extended"
    platform,      \* Platform.OS: "web" or "native"
    webhookUrl,    \* useState("")
    openAIKey,     \* useState("") (extended screen)
    isListening,   \* useState(false)
    isLoading,     \* useState(false)
    voiceAvailable,\* useState(false)
    recording,     \* useState(null): 0 is null, otherwise the recording's handle
    recCount,      \* recordings created so far (the next handle is recCount + 1)
    store,         \* AsyncStorage: key -> stored string, or NoValue
    storageQ,      \* AsyncStorage operations issued and not yet carried out, in order
    setupPending,  \* setupVoice calls awaiting VoiceModule.isAvailable(), in order:
                   \* the webhookUrl of the render each was created in
    voiceSession,  \* the SDK's recognition session: "idle" or "active"
    handlers,      \* the webhookUrl of the render the registered VoiceModule.onSpeech*
                   \* handlers were created in, or NoValue when none is registered
    calls,         \* sendCommand calls awaiting fetch, in order of issue (with the
                   \* transcript each came from, or NoText)
    tasks,         \* startRecording / stopRecording calls at an await, in order of issue
    alerts,        \* the Alert.alert calls of the last step, in order
    settled,       \* the sendCommand call that ended in the last step, or NoCall
    interp,        \* transcript and derived command of the last interpretation, or NoInterp
    lastEntered,   \* history: the last value the user typed into each settings input
    phase          \* history: "first", "restarted" (no edit since the restart) or "edited"

vars == << screen, platform, webhookUrl, openAIKey, isListening,
           isLoading, voiceAvailable, recording, recCount, store,
           storageQ, setupPending, voiceSession, handlers, calls, tasks,
           alerts, settled, interp, lastEntered, phase >>

\* Everything but the observations of the last step.
uiVars == << webhookUrl, openAIKey, isListening, isLoading,
             voiceAvailable, recording, recCount >>
envVars == << screen, platform >>
storeVars == << store, storageQ >>
voiceVars == << setupPending, voiceSession, handlers >>
histVars == << lastEntered, phase >>

NoValue == "<null>"
NoCall ==
    [origin |-> "none", action |-> "", value |-> "",
     outcome |-> [kind |-> "none", status |-> 0]]
\* No transcript: the command of a button.
NoText == "<none>"
NoInterp == [text |-> NoText, action |-> "", color |-> ""]

(***************************************************************************)
(* Bounds of the model.                                                    *)
(***************************************************************************)

\* sendCommand calls awaiting fetch at one time.
MaxInFlight == 2
\* startRecording / stopRecording calls at an await at one time.
MaxTasks == 2
\* AsyncStorage operations queued at one time.
MaxStorageOps == 3
\* Recordings created in one run of the app.
MaxRecordings == 1
\* Color buttons pressed in the model: the first ColorButtons entries of COLORS.
ColorButtons == 1
\* Words in a generated transcript.
MaxWords == 2

\* What the user types into the webhook URL input and into the API key input.
UrlValues == { "", " ", "https://n8n/a" }
KeyValues == { "", "sk-1" }

\* What fetch can end with: a response with a status, or a rejection
\* (status 0: network failure; in the simple screen also the 10 s abort).
Outcomes == { [kind |-> "response", status |-> 200],
              [kind |-> "response", status |-> 404],
              [kind |-> "response", status |-> 500],
              [kind |-> "failure", status |-> 0] }

\* response.ok
Ok(outcome) == outcome.kind = "response" /\ outcome.status \in 200..299

Alert(t, m) == [title |-> t, message |-> m]

RemoveAt(seq, i) == SubSeq(seq, 1, i - 1) \o SubSeq(seq, i + 1, Len(seq))

(***************************************************************************)
(* Transcripts.                                                            *)
(***************************************************************************)

\* The example phrases of the extended screen's "Command Not Recognized" alert.
ExtHelpPhrases ==
    { "Turn the light on", "Turn the light off", "Change to blue",
      "Set the color to red", "Make it green" }

\* The example phrases of the simple screen's instructions.
SimpleHelpPhrases ==
    { "Turn on", "On", "Turn off", "Off" }
        \cup { "Red", "Blue", "Green", "Yellow", "White" }
        \cup { "Change to " \o SimpleColors[i] : i \in 1..Len(SimpleColors) }

\* "make it " followed by each synonym of each color.
MakeItPhrases ==
    UNION { { "make it " \o COLOR_VARIATIONS[i].variations[j] :
                j \in 1..Len(COLOR_VARIATIONS[i].variations) } :
            i \in 1..Len(COLOR_VARIATIONS) }

OtherPhrases ==
    { "", "turn it off", "turn it on, not off", "set brightness to max",
      "set brightness to half", "make it red and bright", "  Dim the lights  " }

Words ==
    << "on", "off", "turn", "red", "orange", "navy", "light", "bright", "dim",
       "brightness", "max", "half", "lemon", "banana" >>

RECURSIVE Join(_)
\* The words of a sequence separated by single spaces.
Join(ws) ==
    IF Len(ws) = 0 THEN ""
    ELSE IF Len(ws) = 1 THEN ws[1]
    ELSE ws[1] \o " " \o Join(Tail(ws))

WordCombos ==
    UNION { { Join([k \in 1..n |-> Words[f[k]]]) : f \in [1..n -> 1..Len(Words)] } :
            n \in 1..MaxWords }

\* The transcripts the interpreters are applied to.
Transcripts ==
    ExtHelpPhrases \cup SimpleHelpPhrases \cup MakeItPhrases \cup OtherPhrases
        \cup WordCombos

\* The transcripts the speech SDK and the transcription API deliver in the
\* app model.
AppTranscripts == { "", "Turn on", "make it red", "lemon" }

(***************************************************************************)
(* Construction: the state after the first render and its mount effect.    *)
(***************************************************************************)

\* getItem(k), issued by the init() of the render whose webhookUrl is u.
GetOp(k, u) == [op |-> "get", key |-> k, value |-> NoValue, closure |-> u]
SetOp(k, v) == [op |-> "set", key |-> k, value |-> v, closure |-> NoValue]

\* The mount effect: init() of the mounted screen.
\* simple: await loadWebhookUrl(); await setupVoice()
\* extended: Promise.all([loadWebhookUrl(), loadOpenAIKey(), setupVoice()])
MountQueue(scr) ==
    IF scr = "simple" THEN << GetOp("webhookUrl", "") >>
    ELSE << GetOp("webhookUrl", ""), GetOp("openAIKey", "") >>

MountSetups(scr) == IF scr = "simple" THEN << >> ELSE << "" >>

EmptyStore == [webhookUrl |-> NoValue, openAIKey |-> NoValue]

Mounted(scr) ==
    /\ webhookUrl = ""
    /\ openAIKey = ""
    /\ isListening = FALSE
    /\ isLoading = FALSE
    /\ voiceAvailable = FALSE
    /\ recording = 0
    /\ recCount = 0
    /\ storageQ = MountQueue(scr)
    /\ setupPending = MountSetups(scr)
    /\ voiceSession = "idle"
    /\ handlers = NoValue
    /\ calls = << >>
    /\ tasks = << >>
    /\ alerts = << >>
    /\ settled = NoCall
    /\ interp = NoInterp

Init ==
    /\ screen \in { "simple", "extended" }
    /\ platform \in { "web", "native" }
    /\ store = EmptyStore
    /\ lastEntered = EmptyStore
    /\ phase = "first"
    /\ Mounted(screen)

\* The step shows the alerts `as`; no sendCommand call ended in it and no
\* transcript was interpreted.
Shows(as) == alerts' = as /\ settled' = NoCall /\ interp' = NoInterp

\* The step shows no alert.
Quiet == Shows(<< >>)

(***************************************************************************)
(* Settings: AsyncStorage, the startup load and the inputs.                *)
(***************************************************************************)

\* setupVoice calls awaiting isAvailable() at one time.
MaxSetups == 1

\* The voice SDK is present and isAvailable() answers true: on a device, not
\* in the web build.
deviceVoice == platform = "native"

\* `if (url)`: a stored, non-empty string.
Truthy(v) == v # NoValue /\ v # ""

\* saveWebhookUrl: AsyncStorage carries out the setItem at the head of its queue.
saveWebhookUrl ==
    /\ storageQ # << >>
    /\ Head(storageQ).op = "set"
    /\ store' = [store EXCEPT ![Head(storageQ).key] = Head(storageQ).value]
    /\ storageQ' = Tail(storageQ)
    /\ Quiet
    /\ UNCHANGED << envVars, uiVars, voiceVars, calls, tasks, histVars >>

\* loadWebhookUrl: getItem("webhookUrl") answers; `if (url) setWebhookUrl(url)`.
\* In the simple screen init() goes on to setupVoice, and a changed webhookUrl
\* gives a new sendCommand, hence a new setupVoice: the effect runs again
\* (cleanupVoice, then init() with a new load).
loadWebhookUrl ==
    /\ storageQ # << >>
    /\ Head(storageQ).op = "get" /\ Head(storageQ).key = "webhookUrl"
    /\ LET url == store.webhookUrl
           changed == Truthy(url) /\ url # webhookUrl
       IN  /\ webhookUrl' = IF Truthy(url) THEN url ELSE webhookUrl
           /\ IF screen = "simple"
              THEN /\ Len(setupPending) < MaxSetups
                   /\ setupPending' = Append(setupPending, Head(storageQ).closure)
                   /\ storageQ' = IF changed
                                  THEN Append(Tail(storageQ), GetOp("webhookUrl", url))
                                  ELSE Tail(storageQ)
                   /\ voiceSession' = IF changed THEN "idle" ELSE voiceSession
                   /\ handlers' = IF changed THEN NoValue ELSE handlers
              ELSE /\ storageQ' = Tail(storageQ)
                   /\ UNCHANGED voiceVars
    /\ Quiet
    /\ UNCHANGED << envVars, openAIKey, isListening, isLoading,
                    voiceAvailable, recording, recCount, store, calls, tasks, histVars >>

\* loadOpenAIKey: getItem("openAIKey") answers; `if (key) setOpenAIKey(key)`.
loadOpenAIKey ==
    /\ storageQ # << >>
    /\ Head(storageQ).op = "get" /\ Head(storageQ).key = "openAIKey"
    /\ openAIKey' = IF Truthy(store.openAIKey) THEN store.openAIKey ELSE openAIKey
    /\ storageQ' = Tail(storageQ)
    /\ Quiet
    /\ UNCHANGED << envVars, webhookUrl, isListening, isLoading,
                    voiceAvailable, recording, recCount, store, voiceVars, calls,
                    tasks, histVars >>

\* setupVoice after isAvailable() answered: setVoiceAvailable, and the
\* onSpeech* handlers of the render the call was created in are registered
\* when the SDK is available.
setupVoice ==
    /\ setupPending # << >>
    /\ setupPending' = Tail(setupPending)
    /\ voiceAvailable' = deviceVoice
    /\ handlers' = IF deviceVoice THEN Head(setupPending) ELSE handlers
    /\ Quiet
    /\ UNCHANGED << envVars, webhookUrl, openAIKey, isListening, isLoading, recording, recCount, storeVars, voiceSession,
                    calls, tasks, histVars >>

\* The simple screen's webhook input: setWebhookUrl(text); saveWebhookUrl(text).
\* The setItem is issued in the handler, the effect's new load after the render.
Simple_onChangeText(text) ==
    /\ screen = "simple"
    /\ text # webhookUrl
    /\ Len(storageQ) + 2 <= MaxStorageOps
    /\ webhookUrl' = text
    /\ storageQ' = storageQ \o << SetOp("webhookUrl", text), GetOp("webhookUrl", text) >>
    /\ voiceSession' = "idle"
    /\ handlers' = NoValue
    /\ lastEntered' = [lastEntered EXCEPT !.webhookUrl = text]
    /\ phase' = "edited"
    /\ Quiet
    /\ UNCHANGED << envVars, openAIKey, isListening, isLoading,
                    voiceAvailable, recording, recCount, store, setupPending,
                    calls, tasks >>

\* The extended screen's webhook input: onChangeText={setWebhookUrl}.
Ext_onChangeWebhookUrl(text) ==
    /\ screen = "extended"
    /\ text # webhookUrl
    /\ webhookUrl' = text
    /\ lastEntered' = [lastEntered EXCEPT !.webhookUrl = text]
    /\ phase' = "edited"
    /\ Quiet
    /\ UNCHANGED << envVars, openAIKey, isListening, isLoading,
                    voiceAvailable, recording, recCount, storeVars, voiceVars,
                    calls, tasks >>

\* The extended screen's API key input: onChangeText={setOpenAIKey}.
Ext_onChangeOpenAIKey(text) ==
    /\ screen = "extended"
    /\ text # openAIKey
    /\ openAIKey' = text
    /\ lastEntered' = [lastEntered EXCEPT !.openAIKey = text]
    /\ phase' = "edited"
    /\ Quiet
    /\ UNCHANGED << envVars, webhookUrl, isListening, isLoading,
                    voiceAvailable, recording, recCount, storeVars, voiceVars,
                    calls, tasks >>

\* The app is closed and opened again: the component is constructed anew, the
\* store is kept, requests in flight are dropped.  Taken once AsyncStorage has
\* carried out what was issued.
Restart ==
    /\ storageQ = << >>
    /\ phase' = "restarted"
    /\ webhookUrl' = ""
    /\ openAIKey' = ""
    /\ isListening' = FALSE
    /\ isLoading' = FALSE
    /\ voiceAvailable' = FALSE
    /\ recording' = 0
    /\ recCount' = 0
    /\ storageQ' = MountQueue(screen)
    /\ setupPending' = MountSetups(screen)
    /\ voiceSession' = "idle"
    /\ handlers' = NoValue
    /\ calls' = << >>
    /\ tasks' = << >>
    /\ Quiet
    /\ UNCHANGED << envVars, store, lastEntered >>

(***************************************************************************)
(* Transport: sendCommand and the buttons.                                 *)
(***************************************************************************)

COLORS ==
    << [name |-> "red",    value |-> "#FF4444"],
       [name |-> "blue",   value |-> "#4444FF"],
       [name |-> "green",  value |-> "#44FF44"],
       [name |-> "yellow", value |-> "#FFFF44"],
       [name |-> "white",  value |-> "#FFFFFF"] >>

Ended(call, outcome) ==
    [origin |-> call.origin, action |-> call.action, value |-> call.value,
     outcome |-> outcome]

NoUrl == [kind |-> "nourl", status |-> 0]

NoUrlAlerts ==
    IF platform # "web"
    THEN << Alert("Error", "Please set your n8n webhook URL first") >>
    ELSE << >>

\* The simple screen's sendCommand up to its fetch, `url` being the webhookUrl
\* of the render the called sendCommand was created in.
\* payload = color ? { action, color } : { action }
Simple_sendCommand(url, action, color, origin, text) ==
    LET call == [origin |-> origin, text |-> text, action |-> action, value |-> color,
                 payload |-> IF color # "" THEN [action |-> action, color |-> color]
                             ELSE [action |-> action],
                 url |-> Trim(url)]
    IN  IF Trim(url) = ""
        THEN /\ alerts' = NoUrlAlerts
             /\ settled' = Ended(call, NoUrl)
             /\ UNCHANGED << isLoading, calls >>
        ELSE /\ Len(calls) < MaxInFlight
             /\ isLoading' = TRUE
             /\ calls' = Append(calls, call)
             /\ alerts' = << >>
             /\ settled' = NoCall

\* `${action} (${color})` or action
ActionText(call) ==
    IF call.value # "" THEN call.action \o " (" \o call.value \o ")" ELSE call.action

\* The message of the Error thrown or caught in the simple screen's sendCommand.
Simple_errorMessage(outcome) ==
    IF outcome.kind = "response"
    THEN "HTTP " \o ToString(outcome.status) \o ": " \o "body"
    ELSE IF outcome.kind = "abort" THEN "Aborted"
    ELSE "Network request failed"

\* The simple screen's sendCommand from the end of its fetch: try, catch, finally.
Simple_settle(i, outcome) ==
    /\ alerts' = IF platform = "web" THEN << >>
                 ELSE IF Ok(outcome)
                 THEN << Alert("Success", "Command sent: " \o ActionText(calls[i])) >>
                 ELSE << Alert("Error", "Failed to send command: "
                                            \o Simple_errorMessage(outcome)) >>
    /\ settled' = Ended(calls[i], outcome)
    /\ interp' = NoInterp
    /\ isLoading' = FALSE
    /\ calls' = RemoveAt(calls, i)
    /\ UNCHANGED << envVars, webhookUrl, openAIKey, isListening, voiceAvailable, recording, recCount, storeVars, voiceVars,
                    tasks, histVars >>

\* The webhook answers, or the request fails.
Simple_fetchDone(i, outcome) ==
    /\ screen = "simple"
    /\ i \in 1..Len(calls)
    /\ Simple_settle(i, outcome)

\* A timer whose firing aborts nothing: the request stays as it is.
Simple_timeoutNoAbort(i) ==
    /\ screen = "simple"
    /\ i \in 1..Len(calls)
    /\ UNCHANGED vars

\* setTimeout(() => controller.abort(), 10000) fires before the webhook answers.
Simple_timeout(i) ==
    /\ screen = "simple"
    /\ i \in 1..Len(calls)
    /\ Simple_settle(i, [kind |-> "abort", status |-> 0])

SimpleButtons ==
    { [action |-> "on", color |-> ""], [action |-> "off", color |-> ""] }
        \cup { [action |-> "color", color |-> COLORS[i].value] :
                 i \in 1..(IF ColorButtons < Len(COLORS) THEN ColorButtons
                           ELSE Len(COLORS)) }

\* ON, OFF and the color buttons of the simple screen (disabled={isLoading}).
Simple_onPress(b) ==
    /\ screen = "simple"
    /\ ~isLoading
    /\ Simple_sendCommand(webhookUrl, b.action, b.color, "button", NoText)
    /\ interp' = NoInterp
    /\ UNCHANGED << envVars, webhookUrl, openAIKey, isListening, voiceAvailable, recording, recCount, storeVars, voiceVars,
                    tasks, histVars >>

\* The extended screen's sendCommand up to its fetch.
Ext_sendCommand(action, value, origin, text) ==
    LET call == [origin |-> origin, text |-> text, action |-> action, value |-> value,
                 payload |-> IF action = "set_color" /\ value # ""
                             THEN [action |-> action, color |-> value]
                             ELSE IF action = "set_brightness" /\ value # ""
                             THEN [action |-> action, brightness |-> value]
                             ELSE [action |-> action],
                 url |-> Trim(webhookUrl)]
    IN  IF Trim(webhookUrl) = ""
        THEN /\ settled' = Ended(call, NoUrl)
             /\ UNCHANGED << isLoading, calls >>
        ELSE /\ Len(calls) < MaxInFlight
             /\ isLoading' = TRUE
             /\ calls' = Append(calls, call)
             /\ settled' = NoCall

RECURSIVE ReplaceFirst(_, _, _)
\* String.prototype.replace with a string pattern: the first occurrence only.
ReplaceFirst(s, c, d) ==
    IF Len(s) = 0 THEN ""
    ELSE IF SubSeq(s, 1, 1) = c THEN d \o SubSeq(s, 2, Len(s))
    ELSE SubSeq(s, 1, 1) \o ReplaceFirst(SubSeq(s, 2, Len(s)), c, d)

\* processVoiceCommand after `await sendCommand(action, color)`.
FeedbackMessage(action, color) ==
    "Command executed: " \o ReplaceFirst(action, "_", " ")
        \o (IF color # "" THEN " (" \o color \o ")" ELSE "")

\* The alerts of processVoiceCommand that follow a sendCommand it awaited.
VoiceFeedback(origin, action, color) ==
    IF origin = "voice" THEN << Alert("Success", FeedbackMessage(action, color)) >>
    ELSE << >>

\* The extended screen's sendCommand from the end of its fetch (try, catch,
\* finally), and then the processVoiceCommand that awaited it, if any.
Ext_fetchDone(i, outcome) ==
    /\ screen = "extended"
    /\ i \in 1..Len(calls)
    /\ alerts' = (IF Ok(outcome) THEN << >>
                  ELSE << Alert("Error",
                          "Failed to send command. Please check your webhook URL.") >>)
                 \o VoiceFeedback(calls[i].origin, calls[i].action, calls[i].value)
    /\ settled' = Ended(calls[i], outcome)
    /\ interp' = NoInterp
    /\ isLoading' = FALSE
    /\ calls' = RemoveAt(calls, i)
    /\ UNCHANGED << envVars, webhookUrl, openAIKey, isListening, voiceAvailable,
                    recording, recCount, storeVars, voiceVars, tasks,
                    histVars >>

ExtButtons ==
    { [action |-> "turn_on", color |-> ""], [action |-> "turn_off", color |-> ""] }
        \cup { [action |-> "set_color", color |-> COLORS[i].name] :
                 i \in 1..(IF ColorButtons < Len(COLORS) THEN ColorButtons
                           ELSE Len(COLORS)) }

\* Turn On, Turn Off and the color buttons of the extended screen
\* (disabled={isLoading}).
Ext_onPress(b) ==
    /\ screen = "extended"
    /\ ~isLoading
    /\ Ext_sendCommand(b.action, b.color, "button", NoText)
    /\ interp' = NoInterp
    /\ alerts' = IF Trim(webhookUrl) = "" THEN NoUrlAlerts ELSE << >>
    /\ UNCHANGED << envVars, webhookUrl, openAIKey, isListening, voiceAvailable, recording, recCount, storeVars, voiceVars,
                    tasks, histVars >>

(***************************************************************************)
(* Voice: the interpreters as handlers, the speech SDK's session (simple   *)
(* screen) and the recording flow (extended screen).                       *)
(***************************************************************************)

\* DeriveCommand on the transcripts of the app model.
AppDerived == [t \in AppTranscripts |-> DeriveCommand(t)]

NotRecognizedExt ==
    Alert("Command Not Recognized", "Try saying things like: ...")

\* processVoiceCommand applied to a transcript: the derivation, then
\* `await sendCommand(action, color)` and the Success alert, or the
\* Command Not Recognized alert.  With no webhook URL sendCommand returns at
\* once and the handler goes on in the same step.
processVoiceCommand(text) ==
    /\ screen = "extended"
    /\ LET cmd == AppDerived[text]
       IN  /\ interp' = [text |-> text, action |-> cmd.action, color |-> cmd.color]
           /\ IF cmd.action # ""
              THEN /\ Ext_sendCommand(cmd.action, cmd.color, "voice", text)
                   /\ alerts' = IF Trim(webhookUrl) = ""
                                THEN NoUrlAlerts
                                       \o VoiceFeedback("voice", cmd.action, cmd.color)
                                ELSE << >>
              ELSE /\ alerts' = << NotRecognizedExt >>
                   /\ settled' = NoCall
                   /\ UNCHANGED << isLoading, calls >>
    /\ UNCHANGED << envVars, webhookUrl, openAIKey, isListening, voiceAvailable, recording, recCount, storeVars, voiceVars,
                    tasks, histVars >>

\* The simple screen's voice button: shown when Platform.OS !== "web" and
\* voiceAvailable, disabled={isLoading}.
VoiceButtonSimple == platform # "web" /\ voiceAvailable /\ ~isLoading

\* startVoiceRecognition (onPress while not listening): stop, cancel, start.
Simple_startVoiceRecognition(ok) ==
    /\ screen = "simple"
    /\ VoiceButtonSimple
    /\ ~isListening
    /\ IF ok
       THEN /\ voiceSession' = "active"
            /\ Quiet
            /\ UNCHANGED isListening
       ELSE /\ voiceSession' = "idle"
            /\ isListening' = FALSE
            /\ Shows(<< Alert("Error", "Failed to start voice recognition. "
                                  \o "Please check microphone permissions.") >>)
    /\ UNCHANGED << envVars, webhookUrl, openAIKey, isLoading,
                    voiceAvailable, recording, recCount, storeVars, setupPending,
                    handlers, calls, tasks, histVars >>

\* stopVoiceRecognition (onPress while listening): stop, cancel, setIsListening(false).
Simple_stopVoiceRecognition ==
    /\ screen = "simple"
    /\ VoiceButtonSimple
    /\ isListening
    /\ voiceSession' = "idle"
    /\ isListening' = FALSE
    /\ Quiet
    /\ UNCHANGED << envVars, webhookUrl, openAIKey, isLoading,
                    voiceAvailable, recording, recCount, storeVars, setupPending,
                    handlers, calls, tasks, histVars >>

\* The SDK delivers an event of its session to a registered handler.
SpeechEvent == screen = "simple" /\ voiceSession = "active" /\ handlers # NoValue

\* VoiceModule.onSpeechStart = () => setIsListening(true)
Simple_onSpeechStart ==
    /\ SpeechEvent
    /\ isListening' = TRUE
    /\ Quiet
    /\ UNCHANGED << envVars, webhookUrl, openAIKey, isLoading,
                    voiceAvailable, recording, recCount, storeVars, voiceVars,
                    calls, tasks, histVars >>

\* VoiceModule.onSpeechEnd = () => setIsListening(false)
Simple_onSpeechEnd ==
    /\ SpeechEvent
    /\ isListening' = FALSE
    /\ Quiet
    /\ UNCHANGED << envVars, webhookUrl, openAIKey, isLoading,
                    voiceAvailable, recording, recCount, storeVars, voiceVars,
                    calls, tasks, histVars >>

\* VoiceModule.onSpeechError: the session ends with an error.
Simple_onSpeechError ==
    /\ SpeechEvent
    /\ isListening' = FALSE
    /\ voiceSession' = "idle"
    /\ Shows(IF platform # "web"
             THEN << Alert("Voice Error", "Failed to process voice command. "
                 \o "Please check microphone permissions and try again.") >>
             ELSE << >>)
    /\ UNCHANGED << envVars, webhookUrl, openAIKey, isLoading,
                    voiceAvailable, recording, recCount, storeVars, setupPending,
                    handlers, calls, tasks, histVars >>

NotRecognizedSimple(command) ==
    Alert("Command not recognized",
          "Try saying: ... Received: \"" \o command \o "\"")

\* What handleVoiceResults and parseVoiceCommand derive from results[0].
Simple_interpretation(text) == parseVoiceCommand(Trim(ToLowerCase(text)))

\* Simple_interpretation on the transcripts of the app model.
AppParsed == [t \in AppTranscripts |-> Simple_interpretation(t)]

\* VoiceModule.onSpeechResults = handleVoiceResults: the session's final
\* result; setLastCommand(command); parseVoiceCommand(command).
Simple_handleVoiceResults(text) ==
    /\ SpeechEvent
    /\ voiceSession' = "idle"
    /\ LET cmd == AppParsed[text]
       IN  /\ interp' = [text |-> text, action |-> cmd.action, color |-> cmd.color]
           /\ IF cmd.action # ""
              THEN Simple_sendCommand(handlers, cmd.action, cmd.color, "voice", text)
              ELSE /\ alerts' = IF platform # "web"
                                THEN << NotRecognizedSimple(Trim(ToLowerCase(text))) >>
                                ELSE << >>
                   /\ settled' = NoCall
                   /\ UNCHANGED << isLoading, calls >>
    /\ UNCHANGED << envVars, webhookUrl, openAIKey, isListening, voiceAvailable,
                    recording, recCount, storeVars, setupPending, handlers,
                    tasks, histVars >>

\* A startRecording or stopRecording call at an await.
Task(kind, stage, rec, url, key, text) ==
    [kind |-> kind, stage |-> stage, rec |-> rec, url |-> url, key |-> key,
     text |-> text]

ProcessError == Alert("Error", "Failed to process voice command")

\* The extended screen's voice button (disabled={!webhookUrl || !openAIKey})
\* and startVoiceRecognition: stopRecording() when listening, else
\* startRecording(); each up to its first await.  stopRecording keeps the
\* webhookUrl and openAIKey of the render it was created in.
startVoiceRecognition ==
    /\ screen = "extended"
    /\ webhookUrl # "" /\ openAIKey # ""
    /\ IF isListening
       THEN IF recording = 0
            THEN UNCHANGED tasks
            ELSE /\ Len(tasks) < MaxTasks
                 /\ tasks' = Append(tasks, Task("stop", "unload", recording,
                                                webhookUrl, openAIKey, ""))
       ELSE /\ Len(tasks) < MaxTasks
            /\ tasks' = Append(tasks, Task("start", "create", 0, "", "", ""))
    /\ Quiet
    /\ UNCHANGED << envVars, uiVars, storeVars, voiceVars, calls, histVars >>

\* startRecording after Audio.Recording.createAsync: setRecording,
\* setIsListening(true); or the catch.
startRecording(i, ok) ==
    /\ screen = "extended"
    /\ i \in 1..Len(tasks)
    /\ tasks[i].kind = "start"
    /\ tasks' = RemoveAt(tasks, i)
    /\ IF ok
       THEN /\ recCount < MaxRecordings
            /\ recCount' = recCount + 1
            /\ recording' = recCount + 1
            /\ isListening' = TRUE
            /\ Quiet
       ELSE /\ Shows(<< Alert("Error", "Failed to start recording") >>)
            /\ UNCHANGED << recCount, recording, isListening >>
    /\ UNCHANGED << envVars, webhookUrl, openAIKey, isLoading,
                    voiceAvailable, storeVars, voiceVars, calls, histVars >>

\* stopRecording after recording.stopAndUnloadAsync(): it threw ("throw"), or
\* setRecording(null), setIsListening(false) and then no URI ("nouri") or the
\* transcription request is issued ("uri").
stopRecording(i, result) ==
    /\ screen = "extended"
    /\ i \in 1..Len(tasks)
    /\ tasks[i].stage = "unload"
    /\ IF result = "throw"
       THEN UNCHANGED << recording, isListening >>
       ELSE recording' = 0 /\ isListening' = FALSE
    /\ IF result = "uri"
       THEN /\ tasks' = [tasks EXCEPT ![i].stage = "transcribe"]
            /\ Quiet
       ELSE /\ tasks' = RemoveAt(tasks, i)
            /\ Shows(<< ProcessError >>)
    /\ UNCHANGED << envVars, webhookUrl, openAIKey, isLoading,
                    voiceAvailable, recCount, storeVars, voiceVars, calls,
                    histVars >>

\* stopRecording after the transcription fetch: data.text.trim() and the
\* webhook request `${webhookUrl.trim()}?command=...`, or the catch.
transcriptionDone(i, outcome, text) ==
    /\ screen = "extended"
    /\ i \in 1..Len(tasks)
    /\ tasks[i].stage = "transcribe"
    /\ IF Ok(outcome)
       THEN /\ tasks' = [tasks EXCEPT ![i].stage = "webhook", ![i].text = Trim(text)]
            /\ Quiet
       ELSE /\ tasks' = RemoveAt(tasks, i)
            /\ Shows(<< ProcessError >>)
    /\ UNCHANGED << envVars, uiVars, storeVars, voiceVars, calls, histVars >>

\* stopRecording after the webhook fetch: setLastCommand and the Command Sent
\* alert, or the catch.
rawWebhookDone(i, outcome) ==
    /\ screen = "extended"
    /\ i \in 1..Len(tasks)
    /\ tasks[i].stage = "webhook"
    /\ tasks' = RemoveAt(tasks, i)
    /\ IF Ok(outcome)
       THEN alerts' = << Alert("Command Sent", "\"" \o tasks[i].text \o "\"") >>
       ELSE alerts' = << ProcessError >>
    /\ settled' = NoCall
    /\ interp' = NoInterp
    /\ UNCHANGED << envVars, webhookUrl, openAIKey, isListening, isLoading,
                    voiceAvailable, recording, recCount, storeVars, voiceVars,
                    calls, histVars >>

(***************************************************************************)
(* The app.                                                                *)
(***************************************************************************)

Next ==
    \/ saveWebhookUrl
    \/ loadWebhookUrl
    \/ loadOpenAIKey
    \/ setupVoice
    \/ \E text \in UrlValues : Simple_onChangeText(text)
    \/ \E text \in UrlValues : Ext_onChangeWebhookUrl(text)
    \/ \E text \in KeyValues : Ext_onChangeOpenAIKey(text)
    \/ Restart
    \/ \E b \in SimpleButtons : Simple_onPress(b)
    \/ \E i \in 1..MaxInFlight, o \in Outcomes : Simple_fetchDone(i, o)
    \/ \E i \in 1..MaxInFlight : Simple_timeout(i)
    \/ \E b \in ExtButtons : Ext_onPress(b)
    \/ \E i \in 1..MaxInFlight, o \in Outcomes : Ext_fetchDone(i, o)
    \/ \E ok \in BOOLEAN : Simple_startVoiceRecognition(ok)
    \/ Simple_stopVoiceRecognition
    \/ Simple_onSpeechStart
    \/ Simple_onSpeechEnd
    \/ Simple_onSpeechError
    \/ \E text \in AppTranscripts : Simple_handleVoiceResults(text)
    \/ startVoiceRecognition
    \/ \E i \in 1..MaxTasks, ok \in BOOLEAN : startRecording(i, ok)
    \/ \E i \in 1..MaxTasks, r \in { "uri", "nouri", "throw" } : stopRecording(i, r)
    \/ \E i \in 1..MaxTasks, o \in Outcomes, text \in AppTranscripts :
           transcriptionDone(i, o, text)
    \/ \E i \in 1..MaxTasks, o \in Outcomes : rawWebhookDone(i, o)

Spec == Init /\ [][Next]_vars

\* The extended screen's settings and transport, and processVoiceCommand
\* applied to a transcript in any of their states.  (The screen registers it,
\* through handleVoiceResults, as the speech SDK's result handler but starts
\* no SDK session, so Next holds no event that calls it.)
NextHandlers ==
    \/ loadWebhookUrl
    \/ loadOpenAIKey
    \/ setupVoice
    \/ \E text \in UrlValues : Ext_onChangeWebhookUrl(text)
    \/ \E text \in KeyValues : Ext_onChangeOpenAIKey(text)
    \/ \E b \in ExtButtons : Ext_onPress(b)
    \/ \E i \in 1..MaxInFlight, o \in Outcomes : Ext_fetchDone(i, o)
    \/ \E text \in AppTranscripts : processVoiceCommand(text)

SpecHandlers == Init /\ [][NextHandlers]_vars

\* The simple screen: its settings, transport and voice session.
NextSimple ==
    \/ saveWebhookUrl
    \/ loadWebhookUrl
    \/ setupVoice
    \/ \E text \in UrlValues : Simple_onChangeText(text)
    \/ Restart
    \/ \E b \in SimpleButtons : Simple_onPress(b)
    \/ \E i \in 1..MaxInFlight, o \in Outcomes : Simple_fetchDone(i, o)
    \/ \E i \in 1..MaxInFlight : Simple_timeout(i)
    \/ \E ok \in BOOLEAN : Simple_startVoiceRecognition(ok)
    \/ Simple_stopVoiceRecognition
    \/ Simple_onSpeechStart
    \/ Simple_onSpeechEnd
    \/ Simple_onSpeechError
    \/ \E text \in AppTranscripts : Simple_handleVoiceResults(text)

\* The simple screen with its timers: the 10 s timer of the oldest sendCommand
\* call fires if the call is still awaiting its fetch.  Nothing makes the
\* webhook answer.
SpecLive == Init /\ [][NextSimple]_vars /\ WF_vars(Simple_timeout(1))

(***************************************************************************)
(* The interpreters alone: one application to each transcript of           *)
(* Transcripts.                                                            *)
(***************************************************************************)

\* The derivation of processVoiceCommand, applied to a transcript.
Ext_interpret(text) ==
    /\ screen = "extended"
    /\ interp = NoInterp
    /\ LET cmd == DeriveCommand(text)
       IN  interp' = [text |-> text, action |-> cmd.action, color |-> cmd.color]
    /\ UNCHANGED << envVars, uiVars, storeVars, voiceVars, calls, tasks, alerts,
                    settled, histVars >>

\* The derivation of handleVoiceResults and parseVoiceCommand, applied to a transcript.
Simple_interpret(text) ==
    /\ screen = "simple"
    /\ interp = NoInterp
    /\ LET cmd == Simple_interpretation(text)
       IN  interp' = [text |-> text, action |-> cmd.action, color |-> cmd.color]
    /\ UNCHANGED << envVars, uiVars, storeVars, voiceVars, calls, tasks, alerts,
                    settled, histVars >>

NextInterp ==
    \/ \E text \in Transcripts : Ext_interpret(text)
    \/ \E text \in Transcripts : Simple_interpret(text)

SpecInterp == Init /\ [][NextInterp]_vars

(***************************************************************************)
(* Properties.                                                             *)
(***************************************************************************)

HasAlert(title) == \E k \in 1..Len(alerts) : alerts[k].title = title

\* A sendCommand call ended in the last step, on a device (where the simple
\* screen shows its alerts).
CallEnded == settled # NoCall /\ platform = "native"

\* The webhook answered non-2xx or the request failed.
Failed(outcome) == outcome.kind \in { "response", "failure", "abort" } /\ ~Ok(outcome)

\* C1: a success notification for a command is shown only if the webhook
\* answered 2xx; after a non-2xx answer or a failed request the user gets an
\* error notification, which carries the HTTP status when there is one, and
\* no success notification.
C1_SuccessOnlyOn2xx ==
    CallEnded =>
        /\ HasAlert("Success") => Ok(settled.outcome)
        /\ Failed(settled.outcome) =>
              /\ ~HasAlert("Success")
              /\ \E k \in 1..Len(alerts) :
                    /\ alerts[k].title = "Error"
                    /\ settled.outcome.kind = "response"
                          => Includes(alerts[k].message,
                                      ToString(settled.outcome.status))

\* The webhook requests in flight: those of sendCommand and those of stopRecording.
InFlightWebhook ==
    Len(calls) + Cardinality({ i \in 1..Len(tasks) : tasks[i].stage = "webhook" })

\* C2: in both screens at most one webhook request is in flight at any time.
C2_AtMostOneInFlight == InFlightWebhook <= 1

\* C3: with no webhook URL configured (empty or whitespace-only) or, for the
\* voice path, no API credential, the action issues no network request
\* (neither transcription nor webhook) and ends in a configuration error.
C3_NoRequestWithoutConfiguration ==
    /\ \A i \in 1..Len(calls) : Trim(calls[i].url) # ""
    /\ \A i \in 1..Len(tasks) :
          tasks[i].stage \in { "transcribe", "webhook" }
              => Trim(tasks[i].url) # "" /\ tasks[i].key # ""
    /\ (CallEnded /\ settled.outcome = NoUrl)
          => alerts # << >> /\ alerts[1].title = "Error"

\* C4: every edit of the webhook URL or of the API credential is written to
\* the store, so that after a restart the value loaded at startup is the last
\* value the user entered.
C4_LastEditSurvivesRestart ==
    (phase = "restarted" /\ storageQ = << >>) =>
        /\ lastEntered.webhookUrl # NoValue => webhookUrl = lastEntered.webhookUrl
        /\ lastEntered.openAIKey # NoValue => openAIKey = lastEntered.openAIKey

\* The extended interpreter was applied in the last step.
ExtInterpreted == screen = "extended" /\ interp # NoInterp

\* The transcript of the last interpretation as the interpreter matches it.
Heard == Trim(ToLowerCase(interp.text))

\* C5: the command the extended interpreter derives has a non-empty parameter
\* if and only if its action is set_color or set_brightness.
C5_ParameterIffSetAction ==
    ExtInterpreted =>
        (interp.color # "" <=> interp.action \in { "set_color", "set_brightness" })

C5_Witness ==
    /\ ExtInterpreted
    /\ interp.text = "dim"
    /\ interp.action = "set_brightness"
    /\ interp.color = "20"

BrightnessWords == << "bright", "dim", "brightness" >>

LevelKeywords ==
    << "full", "max", "maximum", "brightest", "half", "medium", "mid",
       "low", "dim", "minimum" >>

\* The transcript holds a synonym of some color.
HasColorWord(c) ==
    \E i \in 1..Len(COLOR_VARIATIONS) : IncludesAny(c, COLOR_VARIATIONS[i].variations)

\* The canonical name of the first color of the table with a synonym in c.
FirstColor(c) ==
    LET i == CHOOSE k \in 1..Len(COLOR_VARIATIONS) :
                 /\ IncludesAny(c, COLOR_VARIATIONS[k].variations)
                 /\ \A j \in 1..(k - 1) : ~IncludesAny(c, COLOR_VARIATIONS[j].variations)
    IN  COLOR_VARIATIONS[i].name

ColorAndBrightness ==
    ExtInterpreted /\ HasColorWord(Heard) /\ IncludesAny(Heard, BrightnessWords)

\* C6 as claimed: a transcript with both a color word and a brightness word
\* resolves to set_brightness, never set_color.
C6_BrightnessAlwaysWins == ColorAndBrightness => interp.action = "set_brightness"

\* C6 as amended: a transcript with both a color word and a brightness word
\* resolves to set_brightness (with level 100, 50 or 20) exactly when it also
\* holds a level keyword; without one the color command stands, with the first
\* matching color of the table.
C6_BrightnessWinsWithLevel ==
    ColorAndBrightness =>
        IF IncludesAny(Heard, LevelKeywords)
        THEN interp.action = "set_brightness" /\ interp.color \in { "100", "50", "20" }
        ELSE interp.action = "set_color" /\ interp.color = FirstColor(Heard)

C6_Witness ==
    \/ /\ ExtInterpreted
       /\ interp.text = "make it red and bright"
       /\ interp.action = "set_color"
    \/ /\ ExtInterpreted
       /\ interp.text = "red dim"
       /\ interp.action = "set_brightness"

\* C7: in the extended interpreter "off" wins over "on": for every transcript
\* that contains "off" the power step selects turn_off, and the result is
\* never turn_on.
C7_OffWins ==
    (ExtInterpreted /\ Includes(Heard, "off")) =>
        /\ PowerStep(Heard) = "turn_off"
        /\ interp.action # "turn_on"

C7_Witness ==
    /\ ExtInterpreted
    /\ interp.text = "turn it on, not off"
    /\ interp.action = "turn_off"

\* C8: for every color of the table and every synonym s of it, "make it s"
\* yields set_color with the color's canonical name.
C8_MakeItSynonym ==
    ExtInterpreted =>
        \A i \in 1..Len(COLOR_VARIATIONS) :
            \A j \in 1..Len(COLOR_VARIATIONS[i].variations) :
                interp.text = "make it " \o COLOR_VARIATIONS[i].variations[j]
                    => /\ interp.action = "set_color"
                       /\ interp.color = COLOR_VARIATIONS[i].name

C8_Witness ==
    /\ ExtInterpreted
    /\ interp.text = "make it bright"
    /\ interp.action = "set_color"
    /\ interp.color = "white"

\* The command each example phrase of a screen's help text names.
HelpExpected(scr, text) ==
    LET lc == ToLowerCase(text)
    IN  IF scr = "extended"
        THEN IF text = "Turn the light on" THEN [action |-> "turn_on", color |-> ""]
             ELSE IF text = "Turn the light off" THEN [action |-> "turn_off", color |-> ""]
             ELSE IF text = "Change to blue" THEN [action |-> "set_color", color |-> "blue"]
             ELSE IF text = "Set the color to red" THEN [action |-> "set_color", color |-> "red"]
             ELSE [action |-> "set_color", color |-> "green"]
        ELSE IF text \in { "Turn on", "On" } THEN [action |-> "on", color |-> ""]
             ELSE IF text \in { "Turn off", "Off" } THEN [action |-> "off", color |-> ""]
             ELSE [action |-> "color",
                   color |-> CHOOSE c \in { SimpleColors[i] : i \in 1..Len(SimpleColors) } :
                                 lc = c \/ lc = "change to " \o c]

HelpPhrases(scr) == IF scr = "extended" THEN ExtHelpPhrases ELSE SimpleHelpPhrases

\* C9: in each screen, every example phrase of the screen's help text is
\* interpreted by the screen's interpreter as the command it names.
C9_HelpPhrasesWork ==
    (interp # NoInterp /\ interp.text \in HelpPhrases(screen)) =>
        [action |-> interp.action, color |-> interp.color]
            = HelpExpected(screen, interp.text)

\* w occurs in c as a word (between spaces or the ends of c).
HasWord(c, w) == Includes(" " \o c \o " ", " " \o w \o " ")

\* The transcript holds no power word ("on", "off" as words, "turn on",
\* "turn off"), no color synonym and no brightness keyword.
Unrecognizable(c) ==
    /\ ~HasWord(c, "on") /\ ~HasWord(c, "off")
    /\ ~Includes(c, "turn on") /\ ~Includes(c, "turn off")
    /\ ~HasColorWord(c)
    /\ ~IncludesAny(c, BrightnessWords)

\* C10: a transcript with no power word, no color synonym and no brightness
\* keyword is unrecognized: the interpreter yields no action and no
\* parameter, no webhook request is issued for it, and only a "not
\* recognized" notification results.
C10_UnrecognizedYieldsNone ==
    (interp # NoInterp /\ Unrecognizable(Heard)) =>
        /\ interp.action = "" /\ interp.color = ""
        /\ \A i \in 1..Len(calls) : calls[i].text # interp.text
        /\ settled = NoCall
        /\ Len(alerts) = 1
        /\ alerts[1].title \in { "Command Not Recognized", "Command not recognized" }

\* The stopRecording calls whose webhook request is in flight.
AtWebhook == { i \in 1..Len(tasks) : tasks[i].stage = "webhook" }

\* C11: in the recording screen a webhook request for an utterance is sent
\* only after a successful, non-empty transcription of it: no stopRecording
\* call is at its webhook request with an empty transcript.
C11_WebhookOnlyAfterTranscript ==
    \A i \in AtWebhook : tasks[i].text # ""

\* Synonyms of two or more different colors occur in c.
TwoColors(c) ==
    \E i, j \in 1..Len(COLOR_VARIATIONS) :
        /\ i # j
        /\ IncludesAny(c, COLOR_VARIATIONS[i].variations)
        /\ IncludesAny(c, COLOR_VARIATIONS[j].variations)

\* C12: a transcript with synonyms of two or more colors and no brightness
\* level keyword yields set_color with the canonical name of the earliest of
\* these colors in table order, whatever the order of the words.
C12_FirstColorInTableOrder ==
    (ExtInterpreted /\ TwoColors(Heard) /\ ~IncludesAny(Heard, LevelKeywords)) =>
        /\ interp.action = "set_color"
        /\ \E i \in 1..Len(COLOR_VARIATIONS) :
              /\ interp.color = COLOR_VARIATIONS[i].name
              /\ IncludesAny(Heard, COLOR_VARIATIONS[i].variations)
              /\ \A j \in 1..(i - 1) :
                    ~IncludesAny(Heard, COLOR_VARIATIONS[j].variations)

C12_Witness ==
    /\ ExtInterpreted
    /\ interp.text = "orange red"
    /\ interp.action = "set_color"
    /\ interp.color = "red"

FullKeywords == << "full", "max", "maximum", "brightest" >>
HalfKeywords == << "half", "medium", "mid" >>
LowKeywords == << "low", "dim", "minimum" >>

\* The interpreter returned set_brightness with the given level.
Brightness(level) == interp.action = "set_brightness" /\ interp.color = level

\* C13 as claimed: set_brightness carries "100", "50" or "20" and is returned
\* only for a transcript that matches the brightness pattern; such a
\* transcript gives 100 with a full keyword, 50 with a half keyword and 20
\* with a low keyword.
C13_LevelByKeyword ==
    ExtInterpreted =>
        /\ interp.action = "set_brightness" =>
              /\ interp.color \in { "100", "50", "20" }
              /\ IncludesAny(Heard, BrightnessWords)
        /\ IncludesAny(Heard, BrightnessWords) =>
              /\ IncludesAny(Heard, FullKeywords) => Brightness("100")
              /\ IncludesAny(Heard, HalfKeywords) => Brightness("50")
              /\ IncludesAny(Heard, LowKeywords) => Brightness("20")

\* C13 as amended: the level is that of the first keyword group found, the
\* groups being tried in the order full, half, low; set_brightness is returned
\* exactly for the transcripts that match the brightness pattern and hold a
\* level keyword.
C13_LevelByFirstGroup ==
    ExtInterpreted =>
        IF ~IncludesAny(Heard, BrightnessWords) THEN interp.action # "set_brightness"
        ELSE IF IncludesAny(Heard, FullKeywords) THEN Brightness("100")
        ELSE IF IncludesAny(Heard, HalfKeywords) THEN Brightness("50")
        ELSE IF IncludesAny(Heard, LowKeywords) THEN Brightness("20")
        ELSE interp.action # "set_brightness"

C13_Witness ==
    /\ ExtInterpreted
    /\ interp.text = "dim max"
    /\ Brightness("100")

\* The canonical color names of the two screens.
ColorNames ==
    { COLOR_VARIATIONS[i].name : i \in 1..Len(COLOR_VARIATIONS) }
        \cup { COLORS[i].name : i \in 1..Len(COLORS) }

\* C14: every parsed-command webhook request carries the key color, holding
\* a color name, exactly when its action is the set-color action ("set_color",
\* in the simple screen "color"), the key brightness, holding a level, exactly
\* when its action is set_brightness, and no other key besides action.
C14_RequestShape ==
    \A i \in 1..Len(calls) :
        LET payload == calls[i].payload
        IN  /\ DOMAIN payload \subseteq { "action", "color", "brightness" }
            /\ "action" \in DOMAIN payload
            /\ "color" \in DOMAIN payload
                  <=> payload.action \in { "set_color", "color" }
            /\ "brightness" \in DOMAIN payload
                  <=> payload.action = "set_brightness"
            /\ "color" \in DOMAIN payload => payload.color \in ColorNames
            /\ "brightness" \in DOMAIN payload
                  => payload.brightness \in { "100", "50", "20" }

StorageSettled == screen = "simple" /\ storageQ = << >>

\* The webhook URL in memory is the stored one (nothing stored: the initial "").
MemoryIsStore ==
    webhookUrl = (IF store.webhookUrl = NoValue THEN "" ELSE store.webhookUrl)

\* C16, the settled part: once all pending storage operations have completed,
\* the webhook URL in memory equals the value in the store.
C16_SettledMemoryIsStore == StorageSettled => MemoryIsStore

\* C16, the step part: while the memory holds the user's latest edit, only a
\* further edit (or a restart) changes it; no completing load replaces it.
C16_LoadKeepsNewerEdit ==
    [][ (/\ screen = "simple"
         /\ phase = "edited"
         /\ webhookUrl = lastEntered.webhookUrl
         /\ webhookUrl' # webhookUrl)
            => (lastEntered'.webhookUrl = webhookUrl' \/ phase' = "restarted") ]_vars

\* C16: in the simple screen, for every interleaving of the loads with the
\* edits and their saves, the memory equals the store once the storage
\* operations have completed, and a load that completes late never replaces
\* a newer edit by an older stored value.
C16_LoadNeverOverridesEdit ==
    [](C16_SettledMemoryIsStore) /\ C16_LoadKeepsNewerEdit

\* The stopRecording calls at an await.
Stopping == { i \in 1..Len(tasks) : tasks[i].kind = "stop" }

\* C17: in the recording screen, for every sequence of taps on the voice
\* button, no recording is being stopped (and then transcribed and forwarded)
\* by two stopRecording calls, and once no start or stop is pending
\* isListening is true exactly when a recording handle is held.
C17_EachRecordingOnce ==
    screen = "extended" =>
        /\ \A i, j \in Stopping : i # j => tasks[i].rec # tasks[j].rec
        /\ tasks = << >> => (isListening <=> recording # 0)

====
